---------------------------- MODULE Spec2Model ----------------------------
(***************************************************************************)
(* A model of eq_monitor.py: the market classifier, the pending-window     *)
(* bookkeeping, the once-per-bucket heartbeat and the polling loop.        *)
(*                                                                         *)
(* Units.  An instant is a number of whole seconds since the Unix epoch    *)
(* (the feed's "time" in milliseconds, divided by 1000).  An aware         *)
(* datetime is a record [utc, off]: the instant and the UTC offset, in     *)
(* seconds, of its tzinfo.  A magnitude is a number of hundredths          *)
(* (6.5 is 650).  A distance is a number of metres.                        *)
(***************************************************************************)
EXTENDS Integers, Sequences, FiniteSets, TLC

\* An optional value (a JSON null, a Python None) is the empty sequence; a
\* present value x is <<x>>.
None == <<>>
Some(x) == <<x>>
val(o) == o[1]

(***************************************************************************)
(* datetime arithmetic                                                     *)
(***************************************************************************)
DaysFromCivil(y, m, d) ==
    LET yy  == IF m <= 2 THEN y - 1 ELSE y
        era == yy \div 400
        yoe == yy - era * 400
        mp  == IF m > 2 THEN m - 3 ELSE m + 9
        doy == (153 * mp + 2) \div 5 + d - 1
        doe == yoe * 365 + yoe \div 4 - yoe \div 100 + doy
    IN  era * 146097 + doe - 719468

CivilFromDays(z) ==
    LET zz  == z + 719468
        era == zz \div 146097
        doe == zz - era * 146097
        yoe == (doe - doe \div 1460 + doe \div 36524 - doe \div 146096) \div 365
        doy == doe - (365 * yoe + yoe \div 4 - yoe \div 100)
        mp  == (5 * doy + 2) \div 153
        d   == doy - (153 * mp + 2) \div 5 + 1
        m   == IF mp < 10 THEN mp + 3 ELSE mp - 9
        y   == yoe + era * 400
    IN  [year |-> IF m <= 2 THEN y + 1 ELSE y, month |-> m, day |-> d]

\* datetime(y, mo, d, h, mi, s, tzinfo=timezone(off))
datetime(y, mo, d, h, mi, s, off) ==
    [utc |-> DaysFromCivil(y, mo, d) * 86400 + h * 3600 + mi * 60 + s - off,
     off |-> off]

\* timedelta(hours=h) and timedelta(minutes=m), in seconds
hours(h) == h * 3600
minutes(m) == m * 60

\* dt + timedelta
DtAdd(dt, delta) == [utc |-> dt.utc + delta, off |-> dt.off]

\* a <= b on aware datetimes: the instants are compared, whatever the tzinfo
DtLe(a, b) == a.utc <= b.utc

\* dt.astimezone(timezone(off)): the same instant seen at another offset
astimezone(dt, off) == [utc |-> dt.utc, off |-> off]

\* The wall-clock fields of an aware datetime: what isoformat() and strftime()
\* print.  isoformat() of an aware datetime is these fields with the offset.
isoformat(dt) ==
    LET loc == dt.utc + dt.off
        c   == CivilFromDays(loc \div 86400)
        sod == loc % 86400
    IN  [year |-> c.year, month |-> c.month, day |-> c.day,
         hour |-> sod \div 3600, minute |-> (sod % 3600) \div 60,
         second |-> sod % 60, off |-> dt.off]

\* datetime.fromisoformat(s)
fromisoformat(s) ==
    datetime(s.year, s.month, s.day, s.hour, s.minute, s.second, s.off)

\* datetime.fromtimestamp(time_ms / 1000, tz=timezone.utc)
fromtimestamp(t) == [utc |-> t, off |-> 0]

(***************************************************************************)
(* Config                                                                  *)
(***************************************************************************)
CRITICAL_MAG == 640
HEARTBEAT_HOUR == 16
LOOKBACK_HOURS == 2
PENDING_HOURS == 24
FIFTY_MILES_KM == 80467

\* ET = timezone(timedelta(hours=-4))
ET == 0 - hours(4)

LA_START_ET == datetime(2025, 6, 9, 0, 0, 0, ET)
LA_END_ET == datetime(2025, 12, 31, 23, 59, 59, ET)
MEGA1_START_ET == datetime(2025, 10, 30, 0, 0, 0, ET)
MEGA1_END_ET == datetime(2025, 11, 30, 23, 59, 59, ET)
MEGA2_START_ET == datetime(2025, 9, 30, 0, 0, 0, ET)
MEGA2_END_ET == datetime(2025, 12, 31, 23, 59, 59, ET)
ANY7_1_START_ET == datetime(2025, 10, 30, 19, 0, 0, ET)
ANY7_1_END_ET == datetime(2025, 11, 15, 23, 59, 59, ET)
ANY7_2_START_ET == datetime(2025, 10, 30, 19, 0, 0, ET)
ANY7_2_END_ET == datetime(2025, 11, 30, 23, 59, 59, ET)
QUAKE_10_BEFORE_2027_START_ET == datetime(2026, 1, 1, 0, 0, 0, ET)
QUAKE_10_BEFORE_2027_END_ET == datetime(2026, 12, 31, 23, 59, 59, ET)
QUAKE_9_BEFORE_2027_START_ET == datetime(2026, 1, 1, 0, 0, 0, ET)
QUAKE_9_BEFORE_2027_END_ET == datetime(2026, 12, 31, 23, 59, 59, ET)
MEGA_JAN31_START_ET == datetime(2026, 1, 1, 0, 0, 0, ET)
MEGA_JAN31_END_ET == datetime(2026, 1, 31, 23, 59, 59, ET)
MEGA_MAR31_START_ET == datetime(2026, 1, 1, 0, 0, 0, ET)
MEGA_MAR31_END_ET == datetime(2026, 3, 31, 23, 59, 59, ET)
MEGA_JUN30_START_ET == datetime(2026, 1, 1, 0, 0, 0, ET)
MEGA_JUN30_END_ET == datetime(2026, 6, 30, 23, 59, 59, ET)
ANY7_MAR31_START_ET == datetime(2026, 1, 1, 0, 0, 0, ET)
ANY7_MAR31_END_ET == datetime(2026, 3, 31, 23, 59, 59, ET)
COUNT_7_JUN30_START_ET == datetime(2026, 1, 1, 0, 0, 0, ET)
COUNT_7_JUN30_END_ET == datetime(2026, 6, 30, 23, 59, 59, ET)
COUNT_65_JAN11_START_ET == datetime(2026, 1, 1, 0, 0, 0, ET)
COUNT_65_JAN11_END_ET == datetime(2026, 1, 11, 23, 59, 59, ET)
COUNT_65_JAN18_START_ET == datetime(2026, 1, 1, 0, 0, 0, ET)
COUNT_65_JAN18_END_ET == datetime(2026, 1, 18, 23, 59, 59, ET)
COUNT_7_2026_START_ET == datetime(2026, 1, 1, 0, 0, 0, ET)
COUNT_7_2026_END_ET == datetime(2026, 12, 31, 23, 59, 59, ET)

market_windows ==
    [LA50_65        |-> <<LA_START_ET, LA_END_ET>>,
     MEGA1_80       |-> <<MEGA1_START_ET, MEGA1_END_ET>>,
     MEGA2_80       |-> <<MEGA2_START_ET, MEGA2_END_ET>>,
     ANY7_1_70      |-> <<ANY7_1_START_ET, ANY7_1_END_ET>>,
     ANY7_2_70      |-> <<ANY7_2_START_ET, ANY7_2_END_ET>>,
     QUAKE_10_2027  |-> <<QUAKE_10_BEFORE_2027_START_ET, QUAKE_10_BEFORE_2027_END_ET>>,
     QUAKE_9_2027   |-> <<QUAKE_9_BEFORE_2027_START_ET, QUAKE_9_BEFORE_2027_END_ET>>,
     MEGA_JAN31     |-> <<MEGA_JAN31_START_ET, MEGA_JAN31_END_ET>>,
     MEGA_MAR31     |-> <<MEGA_MAR31_START_ET, MEGA_MAR31_END_ET>>,
     MEGA_JUN30     |-> <<MEGA_JUN30_START_ET, MEGA_JUN30_END_ET>>,
     ANY7_MAR31     |-> <<ANY7_MAR31_START_ET, ANY7_MAR31_END_ET>>,
     COUNT_7_JUN30  |-> <<COUNT_7_JUN30_START_ET, COUNT_7_JUN30_END_ET>>,
     COUNT_65_JAN11 |-> <<COUNT_65_JAN11_START_ET, COUNT_65_JAN11_END_ET>>,
     COUNT_65_JAN18 |-> <<COUNT_65_JAN18_START_ET, COUNT_65_JAN18_END_ET>>,
     COUNT_7_2026   |-> <<COUNT_7_2026_START_ET, COUNT_7_2026_END_ET>>]


(***************************************************************************)
(* Market labels.  The label texts are the source's, with ">=" for its     *)
(* greater-or-equal sign.                                                  *)
(***************************************************************************)
L_LA50 == "LA 50-mile >=6.5 (2025-06-09..2025-12-31 23:59:59 ET)"
L_MEGA1 == "Megaquake >=8.0 (2025-10-30..2025-11-30 23:59:59 ET)"
L_MEGA2 == "Megaquake >=8.0 (2025-09-30..2025-12-31 23:59:59 ET)"
L_ANY7_1 == "7.0+ anywhere (2025-10-30 19:00 ET..2025-11-15 23:59:59 ET)"
L_ANY7_2 == "7.0+ anywhere (2025-10-30 19:00 ET..2025-11-30 23:59:59 ET)"
L_QUAKE_10 == "10.0+ earthquake before 2027"
L_QUAKE_9 == "9.0+ earthquake before 2027"
L_MEGA_JAN31 == "Megaquake by January 31, 2026"
L_MEGA_MAR31 == "Megaquake by March 31, 2026"
L_MEGA_JUN30 == "Megaquake by June 30, 2026"
L_ANY7_MAR31 == "Another 7.0+ earthquake by March 31, 2026"
L_COUNT_7_JUN30 == "How many 7.0+ earthquakes by June 30, 2026"
L_COUNT_65_JAN11 == "How many 6.5+ earthquakes by January 11, 2026"
L_COUNT_65_JAN18 == "How many 6.5+ earthquakes by January 18, 2026"
L_COUNT_7_2026 == "How many 7.0+ earthquakes in 2026"

\* The labels in the order Python's sorted() puts the source's strings
\* (code-point order of the texts as they stand in the source file).
SortedLabels ==
    << L_QUAKE_10, L_ANY7_1, L_ANY7_2, L_QUAKE_9, L_ANY7_MAR31,
       L_COUNT_65_JAN11, L_COUNT_65_JAN18, L_COUNT_7_JUN30, L_COUNT_7_2026,
       L_LA50, L_MEGA_JAN31, L_MEGA_JUN30, L_MEGA_MAR31, L_MEGA2, L_MEGA1 >>

Labels == {SortedLabels[i] : i \in 1..Len(SortedLabels)}

Range(seq) == {seq[i] : i \in 1..Len(seq)}

\* sorted(list(s)) for a set s of labels
sorted(s) == SelectSeq(SortedLabels, LAMBDA l : l \in s)

(***************************************************************************)
(* Utilities                                                               *)
(***************************************************************************)
\* Coordinates are in 1/10000 of a degree.
LOS_ANGELES == <<340522, -1182437>>

\* Sample epicentres: Los Angeles itself, two points due north of it on either
\* side of the 50-mile circle, and Tokyo.
P_LA == <<340522, -1182437>>
P_INSIDE == <<347758, -1182437>>
P_OUTSIDE == <<347759, -1182437>>
P_TOKYO == <<356762, 1396503>>

\* km_distance: the haversine distance of the source, tabulated in metres for
\* the sample epicentres (0.0, 80.4606, 80.4718 and 8819.39 km from Los Angeles).
km_distance(lat1, lon1, lat2, lon2) ==
    CASE <<lat1, lon1>> = <<lat2, lon2>> -> 0
      [] <<lat1, lon1>> = P_INSIDE /\ <<lat2, lon2>> = LOS_ANGELES -> 80461
      [] <<lat1, lon1>> = P_OUTSIDE /\ <<lat2, lon2>> = LOS_ANGELES -> 80472
      [] <<lat1, lon1>> = P_TOKYO /\ <<lat2, lon2>> = LOS_ANGELES -> 8819393

to_et(dt_utc) == astimezone(dt_utc, ET)

\* in_window_et with the end of the window excluded
in_window_et_open_end(dt_utc, start_et, end_et) ==
    LET dt_et == to_et(dt_utc)
    IN  DtLe(start_et, dt_et) /\ ~DtLe(end_et, dt_et)

in_window_et(dt_utc, start_et, end_et) ==
    LET dt_et == to_et(dt_utc)
    IN  DtLe(start_et, dt_et) /\ DtLe(dt_et, end_et)

\* in_window_et(t_utc, *wins[key])
InWin(t_utc, win) == in_window_et(t_utc, win[1], win[2])

\* labels.append(label) under a condition
AppendIf(cond, label) == IF cond THEN <<label>> ELSE <<>>

\* km_distance is reached with the coordinates of the event: math.radians(None)
\* raises TypeError when a coordinate is missing.
\* mag is a number; lat and lon are optional, as process_events passes them.
classify_raises(mag, lat, lon, t_utc) ==
    /\ mag >= 650
    /\ InWin(t_utc, market_windows.LA50_65)
    /\ (lat = None \/ lon = None)

\* a classifier that takes the 6.5+ counting market for the band [6.5, 7.0)
classify_markets_banded(mag, lat, lon, t_utc) ==
    LET wins == market_windows
    IN  AppendIf(mag >= 650 /\ mag < 700 /\ InWin(t_utc, wins.COUNT_65_JAN18),
                 L_COUNT_65_JAN18)
     \o AppendIf(mag >= 700 /\ InWin(t_utc, wins.COUNT_7_2026), L_COUNT_7_2026)

classify_markets(mag, lat, lon, t_utc) ==
    LET wins == market_windows
    IN  AppendIf(/\ mag >= 650 /\ InWin(t_utc, wins.LA50_65)
                 /\ km_distance(val(lat), val(lon), LOS_ANGELES[1], LOS_ANGELES[2])
                        <= FIFTY_MILES_KM, L_LA50)
     \o AppendIf(mag >= 800 /\ InWin(t_utc, wins.MEGA1_80), L_MEGA1)
     \o AppendIf(mag >= 800 /\ InWin(t_utc, wins.MEGA2_80), L_MEGA2)
     \o AppendIf(mag >= 700 /\ InWin(t_utc, wins.ANY7_1_70), L_ANY7_1)
     \o AppendIf(mag >= 700 /\ InWin(t_utc, wins.ANY7_2_70), L_ANY7_2)
     \o AppendIf(mag >= 1000 /\ InWin(t_utc, wins.QUAKE_10_2027), L_QUAKE_10)
     \o AppendIf(mag >= 900 /\ InWin(t_utc, wins.QUAKE_9_2027), L_QUAKE_9)
     \o AppendIf(mag >= 800 /\ InWin(t_utc, wins.MEGA_JAN31), L_MEGA_JAN31)
     \o AppendIf(mag >= 800 /\ InWin(t_utc, wins.MEGA_MAR31), L_MEGA_MAR31)
     \o AppendIf(mag >= 800 /\ InWin(t_utc, wins.MEGA_JUN30), L_MEGA_JUN30)
     \o AppendIf(mag >= 700 /\ InWin(t_utc, wins.ANY7_MAR31), L_ANY7_MAR31)
     \o AppendIf(mag >= 700 /\ InWin(t_utc, wins.COUNT_7_JUN30), L_COUNT_7_JUN30)
     \o AppendIf(mag >= 650 /\ InWin(t_utc, wins.COUNT_65_JAN11), L_COUNT_65_JAN11)
     \o AppendIf(mag >= 650 /\ InWin(t_utc, wins.COUNT_65_JAN18), L_COUNT_65_JAN18)
     \o AppendIf(mag >= 700 /\ InWin(t_utc, wins.COUNT_7_2026), L_COUNT_7_2026)

(***************************************************************************)
(* The configured markets, as the module docstring and the window          *)
(* constants state them: label, minimum magnitude, window, geofence.       *)
(***************************************************************************)
NoFence == None
LAFence == Some([center |-> LOS_ANGELES, radius |-> FIFTY_MILES_KM])

Rule(label, threshold, start, end, geofence) ==
    [label |-> label, threshold |-> threshold, start |-> start, end |-> end,
     geofence |-> geofence]

MarketRules ==
    { Rule(L_LA50, 650, LA_START_ET, LA_END_ET, LAFence),
      Rule(L_MEGA1, 800, MEGA1_START_ET, MEGA1_END_ET, NoFence),
      Rule(L_MEGA2, 800, MEGA2_START_ET, MEGA2_END_ET, NoFence),
      Rule(L_ANY7_1, 700, ANY7_1_START_ET, ANY7_1_END_ET, NoFence),
      Rule(L_ANY7_2, 700, ANY7_2_START_ET, ANY7_2_END_ET, NoFence),
      Rule(L_QUAKE_10, 1000, QUAKE_10_BEFORE_2027_START_ET,
           QUAKE_10_BEFORE_2027_END_ET, NoFence),
      Rule(L_QUAKE_9, 900, QUAKE_9_BEFORE_2027_START_ET,
           QUAKE_9_BEFORE_2027_END_ET, NoFence),
      Rule(L_MEGA_JAN31, 800, MEGA_JAN31_START_ET, MEGA_JAN31_END_ET, NoFence),
      Rule(L_MEGA_MAR31, 800, MEGA_MAR31_START_ET, MEGA_MAR31_END_ET, NoFence),
      Rule(L_MEGA_JUN30, 800, MEGA_JUN30_START_ET, MEGA_JUN30_END_ET, NoFence),
      Rule(L_ANY7_MAR31, 700, ANY7_MAR31_START_ET, ANY7_MAR31_END_ET, NoFence),
      Rule(L_COUNT_7_JUN30, 700, COUNT_7_JUN30_START_ET, COUNT_7_JUN30_END_ET,
           NoFence),
      Rule(L_COUNT_65_JAN11, 650, COUNT_65_JAN11_START_ET,
           COUNT_65_JAN11_END_ET, NoFence),
      Rule(L_COUNT_65_JAN18, 650, COUNT_65_JAN18_START_ET,
           COUNT_65_JAN18_END_ET, NoFence),
      Rule(L_COUNT_7_2026, 700, COUNT_7_2026_START_ET, COUNT_7_2026_END_ET,
           NoFence) }

(***************************************************************************)
(* State                                                                   *)
(***************************************************************************)
VARIABLES
    now,          \* the wall clock, an instant
    ticks,        \* how many times the clock has advanced
    c_in,         \* classifier harness: the arguments of the last call, if any
    c_out,        \* classifier harness: what the last call did
    hb_file,      \* heartbeat_state.json: its "last_timestamp", or None
    hb_sends,     \* the bucket keys of the heartbeats handed to send_discord
    hb_last,      \* the last maybe_send_heartbeat call: what it saw and did
    pending,      \* the pending map: event id -> its record, if any
    pending_file, \* pending_markets.json: the map last written to it
    p_last,       \* the last operation on the pending map, with its arguments
    p_hist,       \* per event id with a record: the upsert_pending calls so far
    seen,         \* the set of identifiers already processed
    seen_file,    \* seen_ids.json: the set last written to it
    since_utc,    \* the lower bound of the next fetch, an instant
    pc,           \* where the main loop stands
    batch,        \* the fetched features process_events has still to handle
    ops,          \* what process_events did for the feature it handled last
    alerts,       \* per event id, the alert notifications requested
    trades        \* per event id, the trade executions requested

vars == <<now, ticks, c_in, c_out, hb_file, hb_sends, hb_last, pending, pending_file,
          p_last, p_hist, seen, seen_file, since_utc, pc, batch, ops, alerts,
          trades>>

clockVars == <<now, ticks>>
classifyVars == <<c_in, c_out>>
heartbeatVars == <<hb_file, hb_sends, hb_last>>
pendingVars == <<pending, pending_file, p_last, p_hist>>
loopVars == <<seen, seen_file, since_utc, pc, batch, ops, alerts, trades>>

\* The identifiers the feed uses in this model.
EventIds == {"us1", "us2"}

\* A dict keyed by event id: every id is mapped, to None when it has no entry.
EmptyMap == [eid \in EventIds |-> None]
Keys(map) == {eid \in EventIds : map[eid] # None}

\* The process starts on 2026-01-12 at 13:59:00 UTC (15:59 in Jerusalem).
StartTime == datetime(2026, 1, 12, 13, 59, 0, 0).utc

\* What process_events did with the feature it took last: the magnitude it
\* compared, the calls it made in order, and the call that raised, if one did.
Handled(feat, mag, did, raised) ==
    [feat |-> Some(feat), mag |-> mag, did |-> did, raised |-> raised]

NothingHandled == [feat |-> None, mag |-> None, did |-> <<>>, raised |-> "none"]

\* Outside the classifier harness: a fixed event, never classified.
ClassifyIdle ==
    /\ c_in = [mag |-> 0, lat |-> None, lon |-> None, t |-> 0]
    /\ c_out = None
HeartbeatIdle ==
    /\ hb_file = None
    /\ hb_sends = <<>>
    /\ hb_last = None
PendingIdle ==
    /\ pending = EmptyMap
    /\ pending_file = EmptyMap
    /\ p_last = None
    /\ p_hist = EmptyMap
\* Outside the main loop: nothing fetched, nothing seen.
LoopIdle ==
    /\ seen = {}
    /\ seen_file = {}
    /\ since_utc = now - hours(LOOKBACK_HOURS)
    /\ pc = "idle"
    /\ batch = <<>>
    /\ ops = NothingHandled
    /\ alerts = [eid \in EventIds |-> 0]
    /\ trades = [eid \in EventIds |-> 0]

(***************************************************************************)
(* The classifier on sample events                                         *)
(***************************************************************************)
SampleMags == {0, 640, 649, 650, 699, 700, 799, 800, 820, 899, 900, 999, 1000}

Boundaries ==
    UNION {{r.start.utc, r.end.utc} : r \in MarketRules}

\* Each window bound, one second before it and one second after it.
SampleTimes == {b + d : b \in Boundaries, d \in {-1, 0, 1}}

Coords(p) == <<Some(p[1]), Some(p[2])>>
NoCoords == <<None, None>>
SamplePlaces == {Coords(P_LA), Coords(P_INSIDE), Coords(P_OUTSIDE),
                 Coords(P_TOKYO), NoCoords}

SampleEvents ==
    {[mag |-> mag, lat |-> place[1], lon |-> place[2], t |-> t] :
        mag \in SampleMags, place \in SamplePlaces, t \in SampleTimes}

\* One call of classify_markets, on the event drawn at the start.
Classify ==
    LET t_utc == fromtimestamp(c_in.t)
        raised == classify_raises(c_in.mag, c_in.lat, c_in.lon, t_utc)
    IN  /\ c_out = None
        /\ c_out' = Some([raised |-> raised,
                          labels |-> IF raised THEN <<>>
                                     ELSE classify_markets(c_in.mag, c_in.lat,
                                                           c_in.lon, t_utc)])
        /\ UNCHANGED <<c_in, clockVars, heartbeatVars, pendingVars, loopVars>>

InitClassify ==
    /\ now = StartTime
    /\ ticks = 0
    /\ c_in \in SampleEvents
    /\ c_out = None
    /\ HeartbeatIdle
    /\ PendingIdle
    /\ LoopIdle

NextClassify == Classify

SpecClassify == InitClassify /\ [][NextClassify]_vars

(***************************************************************************)
(* C1: classify_markets returns a market's label exactly when the event    *)
(* meets that market's rule: magnitude at least the threshold, occurrence  *)
(* time within [start, end] with both bounds included, and, for a          *)
(* geofenced market, epicentre within the radius of the centre.  Each      *)
(* market is decided on its own, so an event meeting several gets all of   *)
(* their labels.                                                           *)
(***************************************************************************)
RuleHolds(r, ev) ==
    /\ ev.mag >= r.threshold
    /\ r.start.utc <= ev.t
    /\ ev.t <= r.end.utc
    /\ \/ r.geofence = NoFence
       \/ km_distance(val(ev.lat), val(ev.lon),
                      val(r.geofence).center[1], val(r.geofence).center[2])
              <= val(r.geofence).radius

C1_ClassifyIffRule ==
    (c_out # None /\ c_in.lat # None /\ c_in.lon # None) =>
        /\ ~val(c_out).raised
        /\ \A r \in MarketRules :
               (r.label \in Range(val(c_out).labels)) <=> RuleHolds(r, c_in)

\* An M8.2 event in the last second of the windows of a 7.0 market and an 8.0
\* market gets both labels.
C1_Witness ==
    /\ c_out # None
    /\ c_in.mag = 820
    /\ c_in.lat # None
    /\ c_in.t = MEGA1_END_ET.utc
    /\ c_in.t = ANY7_2_END_ET.utc
    /\ {L_MEGA1, L_ANY7_2} \subseteq Range(val(c_out).labels)

(***************************************************************************)
(* The clock                                                               *)
(***************************************************************************)
MaxTicks == 3

\* Time passes: the clock advances by one of the given amounts.
ClockAdvance(steps) ==
    \E d \in steps :
        /\ ticks < MaxTicks
        /\ now' = now + d
        /\ ticks' = ticks + 1

\* Time passes between two calls made by a harness.
TickBy(steps) ==
    /\ ClockAdvance(steps)
    /\ UNCHANGED <<classifyVars, heartbeatVars, pendingVars, loopVars>>

\* Around the heartbeat: a minute (successive polls), an hour, a day.
TickSteps == {minutes(1), hours(1), hours(24)}

Tick == TickBy(TickSteps)

\* datetime.now(timezone.utc)
utcnow == fromtimestamp(now)

(***************************************************************************)
(* The heartbeat                                                           *)
(***************************************************************************)
\* ZoneInfo("Asia/Jerusalem"): UTC+3 in summer time, UTC+2 otherwise (the
\* transitions of 2025 and 2026).
HEARTBEAT_TZ(t) ==
    IF \/ /\ datetime(2025, 3, 28, 0, 0, 0, 0).utc <= t
          /\ t < datetime(2025, 10, 25, 23, 0, 0, 0).utc
       \/ /\ datetime(2026, 3, 27, 0, 0, 0, 0).utc <= t
          /\ t < datetime(2026, 10, 24, 23, 0, 0, 0).utc
    THEN hours(3)
    ELSE hours(2)

\* now_local.strftime("%Y-%m-%d-%H"): the bucket key
strftime_bucket(dt) ==
    LET f == isoformat(dt)
    IN  <<f.year, f.month, f.day, f.hour>>

\* load_heartbeat_last: the stored key; None when the file is absent, is not
\* JSON or cannot be read.
load_heartbeat_last(file) == file

\* save_heartbeat_last: every exception is swallowed.  The write succeeds
\* ("ok"), or open() fails and the file is left as it was ("open_fails"), or
\* the file is truncated by open() and the dump fails ("dump_fails").
WriteOutcomes == {"ok", "open_fails", "dump_fails"}

save_heartbeat_last(file, timestamp_str, outcome) ==
    CASE outcome = "ok" -> timestamp_str
      [] outcome = "open_fails" -> file
      [] outcome = "dump_fails" -> None

\* What becomes of the send_discord call of a due heartbeat: the webhook takes
\* it ("ok"), answers with a status >= 300, which is logged ("http_error"),
\* requests.post raises ("raises"), or the process is killed after the save and
\* before the call ("killed").
SendOutcomes == {"ok", "http_error", "raises", "killed"}

ArmingMinutes == 2

heartbeat_due(now_local, last, timestamp_str) ==
    /\ isoformat(now_local).hour = HEARTBEAT_HOUR
    /\ isoformat(now_local).minute < ArmingMinutes
    /\ last # timestamp_str

MaxSends == 3

\* maybe_send_heartbeat
maybe_send_heartbeat ==
    LET now_local == astimezone(utcnow, HEARTBEAT_TZ(now))
        timestamp_str == strftime_bucket(now_local)
        last == load_heartbeat_last(hb_file)
    IN  IF heartbeat_due(now_local, last, timestamp_str)
        THEN \E write \in WriteOutcomes, send \in SendOutcomes :
               LET saved == save_heartbeat_last(hb_file, timestamp_str, write)
               IN  /\ Len(hb_sends) < MaxSends
                   /\ hb_file' = saved
                   /\ hb_sends' = IF send = "killed" THEN hb_sends
                                  ELSE Append(hb_sends, timestamp_str)
                   /\ hb_last' = Some([due |-> TRUE, key |-> timestamp_str,
                                       stored |-> saved, send |-> send])
        ELSE /\ hb_last' = Some([due |-> FALSE, key |-> timestamp_str,
                                 stored |-> hb_file, send |-> "none"])
             /\ UNCHANGED <<hb_file, hb_sends>>

MaybeSendHeartbeat ==
    /\ maybe_send_heartbeat
    /\ UNCHANGED <<clockVars, classifyVars, pendingVars, loopVars>>

InitHeartbeat ==
    /\ now = StartTime
    /\ ticks = 0
    /\ ClassifyIdle
    /\ HeartbeatIdle
    /\ PendingIdle
    /\ LoopIdle

NextHeartbeat == Tick \/ MaybeSendHeartbeat

SpecHeartbeat == InitHeartbeat /\ [][NextHeartbeat]_vars

Count(seq, x) == Cardinality({i \in 1..Len(seq) : seq[i] = x})

(***************************************************************************)
(* C2: over calls of maybe_send_heartbeat at non-decreasing times, no      *)
(* bucket key (date and hour) gets more than one heartbeat notification:   *)
(* neither a second one after a first, nor a retry after a failed send.    *)
(***************************************************************************)
C2_AtMostOncePerBucket ==
    \A i \in 1..Len(hb_sends) : Count(hb_sends, hb_sends[i]) <= 1

(***************************************************************************)
(* C3: when maybe_send_heartbeat finds a heartbeat due, the bucket key is  *)
(* the stored last-sent key by the time send_discord is invoked (or the    *)
(* process is killed on the way to it).                                    *)
(***************************************************************************)
C3_PersistedBeforeSend ==
    (hb_last # None /\ val(hb_last).due) =>
        val(hb_last).stored = val(hb_last).key

(***************************************************************************)
(* The pending map                                                         *)
(***************************************************************************)
Max(a, b) == IF a >= b THEN a ELSE b

\* upsert_pending that moves the expiry forward on every update
upsert_pending_extend(map, eid, mag, occurred_utc, labels, now_utc) ==
    LET expires == DtAdd(now_utc, hours(PENDING_HOURS))
        rec == map[eid]
    IN  IF rec # None
        THEN [map EXCEPT ![eid] = Some(
                 [val(rec) EXCEPT !.latest_mag = Max(@, mag),
                                  !.labels = sorted(Range(@) \cup Range(labels)),
                                  !.expires_at = isoformat(expires)])]
        ELSE [map EXCEPT ![eid] = Some(
                 [first_seen |-> isoformat(now_utc),
                  occured_at |-> isoformat(occurred_utc),
                  latest_mag |-> mag,
                  labels     |-> labels,
                  expires_at |-> isoformat(expires)])]

\* upsert_pending that stores the magnitude of the latest observation
upsert_pending_overwrite(map, eid, mag, occurred_utc, labels, now_utc) ==
    LET expires == DtAdd(now_utc, hours(PENDING_HOURS))
        rec == map[eid]
    IN  IF rec # None
        THEN [map EXCEPT ![eid] = Some(
                 [val(rec) EXCEPT !.latest_mag = mag,
                                  !.labels = sorted(Range(@) \cup Range(labels))])]
        ELSE [map EXCEPT ![eid] = Some(
                 [first_seen |-> isoformat(now_utc),
                  occured_at |-> isoformat(occurred_utc),
                  latest_mag |-> mag,
                  labels     |-> labels,
                  expires_at |-> isoformat(expires)])]

\* upsert_pending, up to its save_pending: the map it leaves
upsert_pending(map, eid, mag, occurred_utc, labels, now_utc) ==
    LET expires == DtAdd(now_utc, hours(PENDING_HOURS))
        rec == map[eid]
    IN  IF rec # None
        THEN [map EXCEPT ![eid] = Some(
                 [val(rec) EXCEPT !.latest_mag = Max(@, mag),
                                  !.labels = sorted(Range(@) \cup Range(labels))])]
        ELSE [map EXCEPT ![eid] = Some(
                 [first_seen |-> isoformat(now_utc),
                  occured_at |-> isoformat(occurred_utc),
                  latest_mag |-> mag,
                  labels     |-> labels,
                  expires_at |-> isoformat(expires)])]

\* the identifiers process_pending collects in `expired`
expired_ids(map, now_utc) ==
    {eid \in Keys(map) :
        DtLe(fromisoformat(val(map[eid]).expires_at), now_utc)}

\* process_pending that keeps a record until the clock has passed its expiry
process_pending_late(map, now_utc) ==
    [eid \in EventIds |->
        IF /\ map[eid] # None
           /\ ~DtLe(now_utc, fromisoformat(val(map[eid]).expires_at))
        THEN None ELSE map[eid]]

\* process_pending, up to its save_pending: the map it leaves
process_pending(map, now_utc) ==
    [eid \in EventIds |->
        IF eid \in expired_ids(map, now_utc) THEN None ELSE map[eid]]

\* save_pending: what load_pending would read back afterwards.  Every exception
\* is logged and swallowed; a dump that fails after open() truncated the file
\* leaves no readable map.
save_pending(file, map, outcome) ==
    CASE outcome = "ok" -> map
      [] outcome = "open_fails" -> file
      [] outcome = "dump_fails" -> EmptyMap

\* The operations on the pending map so far.
OpCount == IF p_last = None THEN 0 ELSE val(p_last).n

MaxPendingOps == 3

UpsertArgs(eid, mag, occurred, labels) ==
    [eid |-> eid, mag |-> mag, occurred |-> occurred, labels |-> labels]

\* What upsert_pending has been given for an identifier since its record was
\* inserted.
Observed(hist, map, a) ==
    IF map[a.eid] = None \/ hist[a.eid] = None
    THEN Some([calls |-> 1, first |-> a, max_mag |-> a.mag,
               labels |-> Range(a.labels)])
    ELSE Some([calls |-> val(hist[a.eid]).calls + 1,
               first |-> val(hist[a.eid]).first,
               max_mag |-> Max(val(hist[a.eid]).max_mag, a.mag),
               labels |-> val(hist[a.eid]).labels \cup Range(a.labels)])

UpsertPending(eid, mag, occurred, labels, write) ==
    LET a == UpsertArgs(eid, mag, occurred, labels)
        map == upsert_pending(pending, eid, mag, fromtimestamp(occurred),
                              labels, utcnow)
    IN  /\ pending' = map
        /\ pending_file' = save_pending(pending_file, map, write)
        /\ p_hist' = [p_hist EXCEPT ![eid] = Observed(p_hist, pending, a)]
        /\ p_last' = Some([n |-> OpCount + 1, op |-> "upsert", args |-> a,
                           at |-> now, removed |-> {}])

ProcessPending(write) ==
    LET map == process_pending(pending, utcnow)
        gone == Keys(pending) \ Keys(map)
    IN  /\ pending' = map
        /\ pending_file' = IF expired_ids(pending, utcnow) # {}
                           THEN save_pending(pending_file, map, write)
                           ELSE pending_file
        /\ p_hist' = [eid \in EventIds |->
                         IF map[eid] = None THEN None ELSE p_hist[eid]]
        /\ p_last' = Some([n |-> OpCount + 1, op |-> "sweep",
                           args |-> UpsertArgs("", 0, 0, <<>>), at |-> now,
                           removed |-> {[eid |-> eid,
                                         expires_at |-> val(pending[eid]).expires_at]
                                        : eid \in gone}])

\* Events as process_events hands them to upsert_pending: matched events that
\* occurred an hour before the start, at Los Angeles.
OccurredAt == StartTime - hours(1)
PendingMags == {650, 700}

PendingUpsert ==
    \E eid \in EventIds, mag \in PendingMags, write \in WriteOutcomes :
        /\ OpCount < MaxPendingOps
        /\ UpsertPending(eid, mag, OccurredAt,
                         classify_markets(mag, Some(P_LA[1]), Some(P_LA[2]),
                                          fromtimestamp(OccurredAt)),
                         write)
        /\ UNCHANGED <<clockVars, classifyVars, heartbeatVars, loopVars>>

PendingSweep ==
    \E write \in WriteOutcomes :
        /\ OpCount < MaxPendingOps
        /\ ProcessPending(write)
        /\ UNCHANGED <<clockVars, classifyVars, heartbeatVars, loopVars>>

InitPending ==
    /\ now = StartTime
    /\ ticks = 0
    /\ ClassifyIdle
    /\ HeartbeatIdle
    /\ PendingIdle
    /\ LoopIdle

\* Around the pending window: an hour, a day.
PendingTickSteps == {hours(1), hours(24)}

PendingTick == TickBy(PendingTickSteps)

NextPending == PendingTick \/ PendingUpsert \/ PendingSweep

SpecPending == InitPending /\ [][NextPending]_vars

\* The step just taken is operation number OpCount + 1 on the pending map, and
\* is an upsert_pending, or a process_pending.
UpsertStep == p_last' # p_last /\ val(p_last').op = "upsert"
SweepStep == p_last' # p_last /\ val(p_last').op = "sweep"

Expiry(rec) == fromisoformat(rec.expires_at).utc
FirstSeen(rec) == fromisoformat(rec.first_seen).utc

(***************************************************************************)
(* C4: a pending record's expires_at is set once, when upsert_pending      *)
(* inserts it, to first_seen + 24 hours, first_seen being the time of the  *)
(* insertion; an upsert_pending on an identifier that has a record leaves  *)
(* its first_seen and its expires_at as they were.                         *)
(***************************************************************************)
C4_ExpiryAnchored ==
    [][UpsertStep =>
         LET eid == val(p_last').args.eid
             new == val(pending'[eid])
         IN  /\ pending'[eid] # None
             /\ IF pending[eid] = None
                THEN /\ FirstSeen(new) = now
                     /\ Expiry(new) = now + 24 * 3600
                ELSE /\ new.first_seen = val(pending[eid]).first_seen
                     /\ new.expires_at = val(pending[eid]).expires_at
                     /\ Expiry(new) = FirstSeen(new) + 24 * 3600]_vars

\* A record inserted at some time t0 has been upserted again an hour later,
\* and expires at t0 + 24 hours.
C4_Witness ==
    /\ p_last # None
    /\ val(p_last).op = "upsert"
    /\ LET eid == val(p_last).args.eid
       IN  /\ pending[eid] # None
           /\ val(p_hist[eid]).calls >= 2
           /\ val(p_last).at = FirstSeen(val(pending[eid])) + 3600
           /\ Expiry(val(pending[eid])) = val(p_last).at + 23 * 3600

(***************************************************************************)
(* C5: while an identifier has a record, an upsert_pending on it never     *)
(* lowers latest_mag and never drops a label; latest_mag is the highest    *)
(* magnitude and labels the union of the labels passed since the record    *)
(* was inserted.                                                           *)
(***************************************************************************)
C5_Monotone ==
    [][UpsertStep =>
         LET eid == val(p_last').args.eid
             new == val(pending'[eid])
         IN  /\ pending'[eid] # None
             /\ new.latest_mag = val(p_hist'[eid]).max_mag
             /\ Range(new.labels) = val(p_hist'[eid]).labels
             /\ pending[eid] # None =>
                  /\ new.latest_mag >= val(pending[eid]).latest_mag
                  /\ Range(val(pending[eid]).labels) \subseteq Range(new.labels)]_vars

\* The last upsert_pending carried a magnitude below the record's latest_mag.
C5_Witness ==
    /\ p_last # None
    /\ val(p_last).op = "upsert"
    /\ LET eid == val(p_last).args.eid
       IN  /\ pending[eid] # None
           /\ val(p_hist[eid]).calls >= 2
           /\ val(p_last).args.mag < val(pending[eid]).latest_mag
           /\ Cardinality(Range(val(pending[eid]).labels))
                  > Len(val(p_last).args.labels)

(***************************************************************************)
(* C6: an upsert_pending whose arguments are those of the call that        *)
(* inserted the record, made right after it, leaves the record as that     *)
(* first call left it.                                                     *)
(***************************************************************************)
C6_Idempotent ==
    [][UpsertStep =>
         LET a == val(p_last').args
         IN  (/\ pending[a.eid] # None
              /\ val(p_hist[a.eid]).calls = 1
              /\ val(p_hist[a.eid]).first = a)
             => pending'[a.eid] = pending[a.eid]]_vars

(***************************************************************************)
(* C7: process_pending at time now removes every record whose expires_at   *)
(* is at or before now and leaves every other record as it was.            *)
(***************************************************************************)
C7_SweepCorrect ==
    [][SweepStep =>
         \A eid \in EventIds :
            IF pending[eid] # None /\ Expiry(val(pending[eid])) <= now
            THEN pending'[eid] = None
            ELSE pending'[eid] = pending[eid]]_vars

\* A sweep has removed a record at the very instant of its expiry and has
\* kept another one that expires later.
C7_Witness ==
    /\ p_last # None
    /\ val(p_last).op = "sweep"
    /\ \E r \in val(p_last).removed :
           fromisoformat(r.expires_at).utc = val(p_last).at
    /\ \E eid \in EventIds :
           /\ pending[eid] # None
           /\ Expiry(val(pending[eid])) > val(p_last).at

(***************************************************************************)
(* The feed                                                                *)
(***************************************************************************)
\* A GeoJSON feature: id, properties.mag, properties.time (in seconds) and the
\* latitude and longitude of geometry.coordinates; each may be missing.
Feature(id, mag, place, time) ==
    [id |-> id, mag |-> mag, lat |-> place[1], lon |-> place[2], time |-> time]

\* What the feed may report: event us1 at M6.5 and, revised, at M7.0, at Los
\* Angeles; event us2 at M6.4 at Tokyo, three minutes after us1 (more than the
\* margin of the lower bound), or, one minute after us1, at M6.4 without
\* coordinates (geometry null) and without a magnitude (mag null); an M8.0
\* event without an identifier.  us1 occurred an hour before the start.
FeedFeatures ==
    { Feature(Some("us1"), Some(650), Coords(P_LA), Some(OccurredAt)),
      Feature(Some("us1"), Some(700), Coords(P_LA), Some(OccurredAt)),
      Feature(Some("us2"), Some(640), Coords(P_TOKYO),
              Some(OccurredAt + minutes(3))),
      Feature(Some("us2"), Some(640), NoCoords, Some(OccurredAt + minutes(1))),
      Feature(Some("us2"), None, Coords(P_TOKYO), Some(OccurredAt + minutes(1))),
      Feature(None, Some(800), Coords(P_TOKYO), Some(OccurredAt)) }

MaxBatch == 2

\* fetch_recent_events(since_utc): the features the feed returns for
\* starttime = since_utc, each event once.
Batches(since) ==
    LET fresh == {f \in FeedFeatures : f.time # None /\ val(f.time) >= since}
    IN  {b \in UNION {[1..n -> fresh] : n \in 0..MaxBatch} :
            \A i, j \in 1..Len(b) : i # j => b[i].id # b[j].id}

(***************************************************************************)
(* process_events                                                          *)
(***************************************************************************)
\* mag = p.get("mag") or 0.0
FeatMag(feat) == IF feat.mag = None THEN 0 ELSE val(feat.mag)

\* time_ms = p.get("time") or 0
FeatTime(feat) == IF feat.time = None THEN 0 ELSE val(feat.time)

\* build_embed formats mag, lat and lon as numbers: a missing one raises
\* TypeError.
build_embed_raises(feat) ==
    feat.mag = None \/ feat.lat = None \/ feat.lon = None

\* the gate that lets every feature with an identifier through, seen or not
skip_feature_no_id(feat, s) == feat.id = None

\* `if not eid or eid in seen: continue`
skip_feature(feat, s) == feat.id = None \/ val(feat.id) \in s

\* seen.add that forgets what was there
seen_add_forget(s, eid) == {eid}

\* seen.add(eid)
seen_add(s, eid) == s \cup {eid}

\* send_discord for an alert: the webhook takes it, answers with a status >= 300
\* (logged), or requests.post raises.
AlertOutcomes == {"ok", "http_error", "raises"}

\* execute_trades_for_markets: it returns, or one of its send_discord calls
\* raises (place_polymarket_order catches its own exceptions).
TradeOutcomes == {"ok", "raises"}

Did(cond, what) == IF cond THEN <<what>> ELSE <<>>

\* an alert threshold above the lowest threshold of a market
is_critical_high(mag) == mag >= 700

\* `if mag >= CRITICAL_MAG:`
is_critical(mag) == mag >= CRITICAL_MAG

\* an upsert for every event, matched or not
touches_market_always(labels) == TRUE

\* `if labels:`
touches_market(labels) == labels # <<>>

\* The body of the loop of process_events for a feature that passes the gate.
\* An exception leaves process_events: the rest of the batch is dropped and the
\* main loop goes on after its `except`.
HandleNew(feat, alert, trade, write) ==
    LET eid == val(feat.id)
        mag == FeatMag(feat)
        occurred_utc == fromtimestamp(FeatTime(feat))
        classifyRaised == classify_raises(mag, feat.lat, feat.lon, occurred_utc)
        labels == IF classifyRaised THEN <<>>
                  ELSE classify_markets(mag, feat.lat, feat.lon, occurred_utc)
        critical == ~classifyRaised /\ is_critical(mag)
        embedRaised == critical /\ build_embed_raises(feat)
        alertSent == critical /\ ~embedRaised
        alertRaised == alertSent /\ alert = "raises"
        alertDone == ~classifyRaised /\ ~embedRaised /\ ~alertRaised
        upserted == alertDone /\ touches_market(labels)
        tradeRaised == upserted /\ trade = "raises"
        completed == alertDone /\ ~tradeRaised
    IN  /\ IF upserted
           THEN UpsertPending(eid, mag, FeatTime(feat), labels, write)
           ELSE UNCHANGED pendingVars
        /\ alerts' = IF alertSent THEN [alerts EXCEPT ![eid] = @ + 1] ELSE alerts
        /\ trades' = IF upserted THEN [trades EXCEPT ![eid] = @ + 1] ELSE trades
        /\ seen' = IF completed THEN seen_add(seen, eid) ELSE seen
        /\ ops' = Handled(feat, Some(mag),
                          <<"classify">> \o Did(alertSent, "alert")
                          \o Did(upserted, "upsert") \o Did(upserted, "trade")
                          \o Did(completed, "seen"),
                          CASE classifyRaised -> "classify_markets"
                            [] embedRaised -> "build_embed"
                            [] alertRaised -> "send_discord"
                            [] tradeRaised -> "execute_trades_for_markets"
                            [] OTHER -> "none")
        /\ IF completed
           THEN batch' = Tail(batch) /\ pc' = "events"
           ELSE batch' = <<>> /\ pc' = "heartbeat"

\* process_events, one feature of the batch at a time.
ProcessEvent ==
    /\ pc = "events"
    /\ batch # <<>>
    /\ LET feat == Head(batch)
       IN  IF skip_feature(feat, seen)
           THEN /\ batch' = Tail(batch)
                /\ ops' = Handled(feat, None, <<>>, "none")
                /\ UNCHANGED <<seen, alerts, trades, pc, pendingVars>>
           ELSE \E alert \in AlertOutcomes, trade \in TradeOutcomes,
                   write \in WriteOutcomes :
                    HandleNew(feat, alert, trade, write)
    /\ UNCHANGED <<seen_file, since_utc, clockVars, classifyVars, heartbeatVars>>

(***************************************************************************)
(* main                                                                    *)
(***************************************************************************)
\* a save that writes only the identifiers the file does not hold yet
save_json_set_delta(file, s, outcome) ==
    CASE outcome = "ok" -> s \ file
      [] outcome = "open_fails" -> file
      [] outcome = "dump_fails" -> {}

\* save_json_set: what load_json_set would read back afterwards.
save_json_set(file, s, outcome) ==
    CASE outcome = "ok" -> s
      [] outcome = "open_fails" -> file
      [] outcome = "dump_fails" -> {}

SetMax(S) == CHOOSE x \in S : \A y \in S : y <= x

\* the lower bound moved to the newest occurrence time itself
next_since_exact(since, feats) ==
    IF feats = <<>> THEN since
    ELSE SetMax({FeatTime(feats[i]) : i \in 1..Len(feats)})

\* `if feats:` newest_ms = max(...); since_utc = newest - timedelta(minutes=2)
next_since(since, feats) ==
    IF feats = <<>> THEN since
    ELSE SetMax({FeatTime(feats[i]) : i \in 1..Len(feats)}) - minutes(2)

\* fetch_recent_events and the advance of since_utc.  The request or the
\* parsing of its answer may raise: the cycle goes on after main's `except`.
Fetch ==
    /\ pc = "fetch"
    /\ \/ /\ pc' = "heartbeat"
          /\ UNCHANGED <<since_utc, batch>>
       \/ \E feats \in Batches(since_utc) :
             /\ since_utc' = next_since(since_utc, feats)
             /\ batch' = feats
             /\ pc' = "events"
    /\ UNCHANGED <<seen, seen_file, ops, alerts, trades, clockVars,
                   classifyVars, heartbeatVars, pendingVars>>

\* After process_events has returned: save_json_set, then process_pending.
AfterBatch ==
    /\ pc = "events"
    /\ batch = <<>>
    /\ \E wseen \in WriteOutcomes, wpending \in WriteOutcomes :
          /\ seen_file' = save_json_set(seen_file, seen, wseen)
          /\ ProcessPending(wpending)
    /\ pc' = "heartbeat"
    /\ UNCHANGED <<seen, since_utc, batch, ops, alerts, trades, clockVars,
                   classifyVars, heartbeatVars>>

\* maybe_send_heartbeat is called outside the try: an exception of its
\* send_discord ends the process.
Heartbeat ==
    /\ pc = "heartbeat"
    /\ maybe_send_heartbeat
    /\ pc' = IF val(hb_last').send \in {"raises", "killed"}
             THEN "dead" ELSE "sleep"
    /\ UNCHANGED <<seen, seen_file, since_utc, batch, ops, alerts, trades,
                   clockVars, classifyVars, pendingVars>>

\* Between two cycles: a minute, or a day.
SleepSteps == {minutes(1), hours(24)}

MaxCycles == 1

\* time.sleep.  The records of the last calls (ops, hb_last, p_last) describe
\* one cycle: they are cleared when the next one starts.
Sleep ==
    /\ pc = "sleep"
    /\ ticks < MaxCycles
    /\ ClockAdvance(SleepSteps)
    /\ pc' = "fetch"
    /\ ops' = NothingHandled
    /\ hb_last' = None
    /\ p_last' = None
    /\ UNCHANGED <<seen, seen_file, since_utc, batch, alerts, trades,
                   classifyVars, hb_file, hb_sends, pending, pending_file,
                   p_hist>>

\* main, after load_json_set and load_pending found no file
Init ==
    /\ now = StartTime
    /\ ticks = 0
    /\ ClassifyIdle
    /\ HeartbeatIdle
    /\ PendingIdle
    /\ seen = {}
    /\ seen_file = {}
    /\ since_utc = now - hours(LOOKBACK_HOURS)
    /\ pc = "fetch"
    /\ batch = <<>>
    /\ ops = NothingHandled
    /\ alerts = [eid \in EventIds |-> 0]
    /\ trades = [eid \in EventIds |-> 0]

Next == Fetch \/ ProcessEvent \/ AfterBatch \/ Heartbeat \/ Sleep

Spec == Init /\ [][Next]_vars

(***************************************************************************)
(* Claims about process_events and SeenSet                                 *)
(***************************************************************************)
\* process_events is about to take the feature at the head of the batch.
AtFeature == pc = "events" /\ batch # <<>>

C9_MarkedSeen ==
    [][(AtFeature
        /\ Head(batch).id # None
        /\ val(Head(batch).id) \notin seen)
       => val(Head(batch).id) \in seen']_vars

\* C10: SeenSet grows monotonically: no step of the loop (process_events,
\* save_json_set, process_pending, maybe_send_heartbeat, the fetch, the sleep)
\* removes an identifier from it.
C10_SeenMonotone == [][seen \subseteq seen']_vars

\* us1 was marked seen in the first cycle; a day later us2 was marked seen, the
\* set was saved, the sweep removed the pending record of us1 and the heartbeat
\* check ran: both identifiers are in SeenSet.
C10_Witness ==
    /\ pc = "sleep"
    /\ ticks >= 1
    /\ seen = {"us1", "us2"}
    /\ trades["us1"] >= 1
    /\ pending["us1"] = None
    /\ p_last # None
    /\ val(p_last).op = "sweep"
    /\ val(p_last).removed # {}
    /\ hb_last # None

(***************************************************************************)
(* Claims about what process_events does with one event                    *)
(***************************************************************************)
\* The identifier of the feature process_events is about to take.
HeadId == val(Head(batch).id)

\* process_events is about to take a feature that passes the gate.
AtUnseen == AtFeature /\ Head(batch).id # None /\ HeadId \notin seen

\* C11: when an identifier already in SeenSet is fetched again with a revised
\* magnitude while its pending window is open, the event is still classified,
\* upserted and notified: the revision re-alerts and updates the pending record.
C11_RevisionReprocessed ==
    [][(/\ AtFeature
        /\ Head(batch).id # None
        /\ HeadId \in seen
        /\ pending[HeadId] # None
        /\ Expiry(val(pending[HeadId])) > now
        /\ Head(batch).mag # None
        /\ val(Head(batch).mag) # val(pending[HeadId]).latest_mag)
       => /\ alerts'[HeadId] = alerts[HeadId] + 1
          /\ pending'[HeadId] # pending[HeadId]
          /\ ops'.did # <<>>]_vars

\* The MatchSet of the feature process_events is about to take, as line 833
\* computes it.
HeadLabels ==
    LET feat == Head(batch)
    IN  classify_markets(FeatMag(feat), feat.lat, feat.lon,
                         fromtimestamp(FeatTime(feat)))

\* C12: upsert_pending is invoked only for events whose MatchSet is non-empty:
\* starting from an empty pending map, every record of the pending map has a
\* non-empty label set, and an event that matches no rule neither creates nor
\* modifies a pending record.
C12_UpsertOnlyOnMatch ==
    [][/\ \A eid \in EventIds :
             pending'[eid] # None => val(pending'[eid]).labels # <<>>
       /\ (AtFeature /\ HeadLabels = <<>>)
             => (pending' = pending /\ pending_file' = pending_file)]_vars

\* In one batch us1 (M6.5, matching a market) was stored in the pending map,
\* then us2 (M6.4, matching none) was classified, alerted and marked seen
\* without a pending record.
C12_Witness ==
    /\ ops.feat # None
    /\ val(ops.feat).id = Some("us2")
    /\ ops.mag = Some(640)
    /\ ops.did = <<"classify", "alert", "seen">>
    /\ pending["us2"] = None
    /\ pending["us1"] # None
    /\ val(pending["us1"]).labels # <<>>
    /\ seen = {"us1", "us2"}

\* C13: an unseen event whose magnitude is at least the global critical
\* threshold but whose MatchSet is empty causes an alert notification to be
\* requested, no pending record to be created and no trade to be requested.
C13_AlertWithoutMatch ==
    [][(/\ AtUnseen
        /\ FeatMag(Head(batch)) >= CRITICAL_MAG
        /\ HeadLabels = <<>>)
       => /\ alerts'[HeadId] = alerts[HeadId] + 1
          /\ pending' = pending
          /\ trades' = trades]_vars

\* C14: for each event process_events performs classify, then the pending
\* upsert, then the notification, in that order: no notification for an event
\* is sent before its pending record has been written.
C14_UpsertBeforeNotify ==
    \A i, j \in 1..Len(ops.did) :
        (ops.did[i] = "upsert" /\ ops.did[j] = "alert") => i < j

(***************************************************************************)
(* Claims about failures                                                   *)
(***************************************************************************)
\* C15: a failure during a cycle of the main loop (fetch or parse error,
\* notification or trade failure, a failure while sending the heartbeat) never
\* halts the process: only a kill from outside ends it.
C15_NeverHalts ==
    pc = "dead" => (hb_last # None /\ val(hb_last).send = "killed")

\* C16: a failure of the notification or trade collaborator while handling one
\* event (here a well-formed one) does not propagate: the pending upsert and
\* the marking of the identifier are still done and process_events goes on with
\* the remaining events of the batch.
C16_FailureContained ==
    [][(AtUnseen /\ ~build_embed_raises(Head(batch)))
       => /\ pc' = "events"
          /\ batch' = Tail(batch)
          /\ HeadId \in seen'
          /\ (HeadLabels # <<>> => pending'[HeadId] # None)]_vars

\* C17: an event with missing coordinates but a present magnitude is still
\* evaluated against the rules without a geofence, processing it raises no
\* error, and it is marked seen like any other event.
C17_MissingCoordinatesHandled ==
    [][(/\ AtUnseen
        /\ Head(batch).mag # None
        /\ (Head(batch).lat = None \/ Head(batch).lon = None))
       => /\ ops'.raised \notin {"classify_markets", "build_embed"}
          /\ (ops'.raised = "none" => HeadId \in seen')]_vars

\* C18: an event whose magnitude is missing is never given magnitude zero (or
\* any other default) for the threshold comparisons; it matches no rule,
\* triggers no alert and creates no pending record.
C18_MissingMagnitudeNotCoerced ==
    [][(AtUnseen /\ Head(batch).mag = None)
       => /\ ops'.mag = None
          /\ alerts' = alerts
          /\ pending' = pending
          /\ trades' = trades]_vars

\* main is about to save SeenSet and sweep the pending map (lines 898-899).
AtAfterBatch == pc = "events" /\ batch = <<>>

\* C19: when writing SeenSet or the pending map to disk fails, the process does
\* not crash and the in-memory structures are what they would be had the write
\* succeeded; whenever a write changes a file, the file holds the full
\* in-memory structure of that moment (or nothing, when the dump failed after
\* the file was truncated), so a successful write carries every update that
\* failed writes missed.
C19_WriteFailureHarmless ==
    [][/\ seen_file' # seen_file
            => (pc' # "dead" /\ seen' = seen /\ seen_file' \in {seen, {}})
       /\ pending_file' # pending_file
            => (pc' # "dead" /\ pending_file' \in {pending', EmptyMap})
       /\ AtAfterBatch
            => /\ pc' = "heartbeat"
               /\ seen' = seen
               /\ pending' = process_pending(pending, utcnow)
       /\ (AtUnseen /\ ops'.raised \in {"none", "execute_trades_for_markets"}
           /\ HeadLabels # <<>>)
            => pending' = upsert_pending(pending, HeadId, FeatMag(Head(batch)),
                                         fromtimestamp(FeatTime(Head(batch))),
                                         HeadLabels, utcnow)]_vars

\* In the second cycle: the write of the pending map failed when us1 was
\* stored (the record is in memory, the file has none), the process went on,
\* and the save of SeenSet persisted both identifiers.
C19_Witness ==
    /\ pc = "heartbeat"
    /\ ticks >= 1
    /\ seen = {"us1", "us2"}
    /\ seen_file = seen
    /\ pending["us1"] # None
    /\ pending_file = EmptyMap
    /\ p_last # None
    /\ val(p_last).op = "sweep"

(***************************************************************************)
(* Claims about the fetch lower bound                                      *)
(***************************************************************************)
\* The step is a fetch that returned a batch.
Fetched == pc = "fetch" /\ pc' = "events"

\* C20: after every non-empty fetched batch the main loop sets its fetch lower
\* bound to the maximum occurrence time in the batch minus the 2-minute margin,
\* never to the maximum itself; after an empty batch, and on every other step,
\* the lower bound is left unchanged.
C20_LowerBound ==
    [][IF Fetched /\ batch' # <<>>
       THEN \E i \in 1..Len(batch') :
               /\ \A j \in 1..Len(batch') :
                      FeatTime(batch'[j]) <= FeatTime(batch'[i])
               /\ since_utc' = FeatTime(batch'[i]) - 120
               /\ since_utc' # FeatTime(batch'[i])
       ELSE since_utc' = since_utc]_vars

\* A batch of two events was fetched, the older one first: the lower bound is
\* two minutes before the newer one.
C20_Witness ==
    /\ pc = "events"
    /\ Len(batch) = 2
    /\ FeatTime(batch[1]) < FeatTime(batch[2])
    /\ since_utc = FeatTime(batch[2]) - 120
    /\ since_utc < FeatTime(batch[1])
    /\ ops = NothingHandled

(***************************************************************************)
(* Claims about the cycle                                                  *)
(***************************************************************************)
\* The cycle is over: main is at time.sleep.
CycleEnd == pc = "sleep"

\* C21: in every cycle of the main loop, also one whose fetch or event
\* processing failed, both the pending expiry sweep (process_pending) and the
\* heartbeat check (maybe_send_heartbeat) are run after the batch.
C21_SweepAndHeartbeatEveryCycle ==
    CycleEnd => /\ p_last # None
                /\ val(p_last).op = "sweep"
                /\ hb_last # None

(***************************************************************************)
(* Claims about the heartbeat due-check                                    *)
(***************************************************************************)
\* The wall clock of the heartbeat's time zone.
LocalNow == isoformat(astimezone(utcnow, HEARTBEAT_TZ(now)))

\* C22: a call of the due-check is 'due' exactly when the local hour is the
\* target hour (16), the minute is inside the arming window (minute < 2) and
\* the stored last-sent bucket differs from the current date+hour bucket;
\* consequently, of the calls made minute after minute from 16:00 on, exactly
\* one is 'due': a 'due' result is not followed by another for the same bucket.
C22_DueExactlyOncePerBucket ==
    [][now' = now
       => /\ hb_last' # None
          /\ val(hb_last').due <=>
                /\ LocalNow.hour = 16
                /\ LocalNow.minute < 2
                /\ load_heartbeat_last(hb_file) # val(hb_last').key
          /\ (hb_last # None /\ val(hb_last).due /\ val(hb_last').due)
                => val(hb_last').key # val(hb_last).key]_vars

(***************************************************************************)
(* Claims about the pending map in the loop                                *)
(***************************************************************************)
\* C23: every pending record is deleted once the current time has reached its
\* expires_at: a cycle that runs at or after that time removes it, so no cycle
\* ends with an expired record still in the pending map.
C23_ExpiredRemovedByCycleEnd ==
    CycleEnd =>
        \A eid \in EventIds :
            pending[eid] # None => Expiry(val(pending[eid])) > now

(***************************************************************************)
(* Claims about the classifier under revision                              *)
(***************************************************************************)
\* C24: classify_markets is monotone in magnitude: for a fixed occurrence time
\* and location, the MatchSet of an event contains the MatchSet the same event
\* gets with any lower magnitude.
C24_MonotoneInMagnitude ==
    (c_out # None /\ c_in.lat # None /\ c_in.lon # None) =>
        \A lower \in {m \in SampleMags : m <= c_in.mag} :
            Range(classify_markets(lower, c_in.lat, c_in.lon,
                                   fromtimestamp(c_in.t)))
                \subseteq Range(val(c_out).labels)

\* An M7.0 event gets a label of a 7.0 market on top of the non-empty MatchSet
\* the same event gets at M6.5.
C24_Witness ==
    /\ c_out # None
    /\ c_in.mag = 700
    /\ c_in.lat # None
    /\ c_in.lon # None
    /\ LET low == Range(classify_markets(650, c_in.lat, c_in.lon,
                                         fromtimestamp(c_in.t)))
           high == Range(val(c_out).labels)
       IN  /\ low # {}
           /\ low \subseteq high
           /\ low # high

(***************************************************************************)
(* Claims about cycles in which an external call fails                     *)
(***************************************************************************)
\* C25: over any sequence of polling cycles, including cycles in which a
\* notification or trade call fails part-way through a batch, an alert
\* notification is requested at most once for each event identifier.
C25_AlertAtMostOnce == \A eid \in EventIds : alerts[eid] <= 1

\* An exception has ended process_events at the head of the batch.
BatchAborted == AtFeature /\ pc' = "heartbeat"

\* C26: a failure while processing an earlier event of a batch, with the lower
\* bound already advanced for that batch, never causes a later event of the
\* batch to be skipped for good: each unseen event left unprocessed is still at
\* or after the lower bound, so that a later fetch returns it again.
C26_DroppedEventsStayFetchable ==
    [][BatchAborted
       => \A i \in 2..Len(batch) :
              (batch[i].id # None /\ val(batch[i].id) \notin seen)
                  => FeatTime(batch[i]) >= since_utc]_vars

\* C27: at the end of every loop cycle every identifier with a record in the
\* pending map is also in SeenSet, also after a cycle in which an external call
\* failed between the pending upsert and the marking of the identifier.
C27_PendingSubsetOfSeen == CycleEnd => Keys(pending) \subseteq seen

\* C28: every rule threshold is at least the global critical threshold, so
\* every event that creates or updates a pending record or triggers a trade
\* request has had an alert notification requested for it in the same step of
\* process_events: no event is traded on without an alert.
C28_NoTradeWithoutAlert ==
    [][/\ \A r \in MarketRules : r.threshold >= CRITICAL_MAG
       /\ \A eid \in EventIds :
             (\/ (pending'[eid] # None /\ pending'[eid] # pending[eid])
              \/ trades'[eid] # trades[eid])
                => alerts'[eid] = alerts[eid] + 1]_vars

\* us1 at M6.5, the lowest market threshold, was alerted, then stored and
\* traded, in one step of process_events.
C28_Witness ==
    /\ ops.feat # None
    /\ val(ops.feat).id = Some("us1")
    /\ ops.mag = Some(650)
    /\ ops.did = <<"classify", "alert", "upsert", "trade", "seen">>
    /\ alerts["us1"] = 1
    /\ trades["us1"] = 1
    /\ pending["us1"] # None
    /\ val(pending["us1"]).latest_mag = 650

=============================================================================
